---- MODULE Spec2Model ----
(***************************************************************************)
(* Model of TreasuryBillAnalytics (src/src/tbills.py): construction from   *)
(* an input table, the horizon decomposition, the break-even solver and    *)
(* the pair iteration / table assembly of compute_break_even_rates.        *)
(*                                                                         *)
(* Numbers.  A decimal yield is the exact rational yield_pct / 100, kept   *)
(* as [num, den].  An accumulation factor (1 + y*m/dc)^k * (1 + y*r/dc)    *)
(* is kept in factored form [base, k, stub, unit], standing for            *)
(* (base/unit)^k * (stub/unit).  A yield returned by the solver is a root  *)
(* of the short-leg equation; it is kept as the signs gm, gr of the two    *)
(* period-growth terms 1 + y*m_s/dc and 1 + y*r_s/dc at that root,         *)
(* together with the path (closed form / numerical seed) that produced it. *)
(***************************************************************************)
EXTENDS Integers, Sequences, FiniteSets, TLC

\* ------------------------------------------------------------------ bounds
MaxWeeks == 3
MaxRows == 3
MinBase == 4
MaxBase == 6
MaxDaysPerWeek == 2
MaxProbeDays == 4
MaxProbeRows == 2
MaxCalls == 2
MaxBatch == 2
MaxUpserts == 2
MaxOtherCommits == 1

\* ------------------------------------------------------- program constants
PctPerUnit == 100
NumSeeds == 3
\* for seed in (initial_guess, initial_guess - 0.02, initial_guess + 0.02)
SeedLabels == <<"nsolve(guess)", "nsolve(guess - 0.02)", "nsolve(guess + 0.02)">>

TenorWeeks == 1..MaxWeeks
\* yields in percent: a market yield and a (far out of market) negative yield
\* that makes a period growth term zero or negative
YieldPcts == {5, -300}
RequiredColumns == {"maturity", "yield_pct"}

VARIABLES
    input_table,              \* [columns, rows] handed to __init__
    day_count_base,
    days_per_week,
    obj,                      \* "new" | "constructed" | "failed"
    cey_by_weeks,
    available_tenors_weeks,
    pc,                       \* position in compute_break_even_rates
    i, j,                     \* positions of the two for loops
    rhs_accum_val,
    results,
    y_be_table,
    error,                    \* exception that reached the caller
    attempts,                 \* solver calls made by the running batch
    probe,                    \* last direct call of a helper and its result
    call,                     \* number of the compute_break_even_rates call
    previous,                 \* what the previous call gave its caller
    symbols,                  \* class attributes _y and _dc
    target_table,             \* rows of the Iceberg table, in canonical order
    data,                     \* the frame given to upsert_data
    up_pc,                    \* position of the running upsert_data call
    stats,                    \* its Stats dictionary
    to_insert_count,          \* result of the first count query
    queries,                  \* statements the call has sent to Athena
    merged,                   \* what the MERGE of the call did
    up_error,                 \* exception that left upsert_data
    upserts,                  \* number of upsert_data calls made
    commits,                  \* commits of other writers to the table
    repeated,                 \* the call got the frame of the completed call before it
    main_pc,                  \* position of main
    main_steps,               \* steps of main completed so far
    daily_yields_csv,         \* app/data/daily_yields.csv
    break_even_yields_csv     \* app/data/break_even_yields.csv

vars == <<input_table, day_count_base, days_per_week, obj, cey_by_weeks,
          available_tenors_weeks, pc, i, j, rhs_accum_val, results,
          y_be_table, error, attempts, probe, call, previous, symbols,
          target_table, data, up_pc, stats, to_insert_count, queries, merged,
          up_error, upserts, commits, repeated,
          main_pc, main_steps, daily_yields_csv, break_even_yields_csv>>

main_vars == <<main_pc, main_steps, daily_yields_csv, break_even_yields_csv>>

analytics_vars == <<input_table, day_count_base, days_per_week, obj, cey_by_weeks,
                    available_tenors_weeks, pc, i, j, rhs_accum_val, results,
                    y_be_table, error, attempts, probe, call, previous, symbols>>

upsert_vars == <<target_table, data, up_pc, stats, to_insert_count, queries, merged,
                 up_error, upserts, commits, repeated>>

\* ----------------------------------------------------------------- helpers
Sgn(x) == IF x > 0 THEN 1 ELSE IF x < 0 THEN -1 ELSE 0

SgnPow(s, k) == IF k = 0 THEN 1 ELSE IF k % 2 = 0 THEN s * s ELSE s

RECURSIVE SeqsUpTo(_, _)
SeqsUpTo(S, n) ==
    IF n = 0 THEN {<<>>}
    ELSE LET shorter == SeqsUpTo(S, n - 1)
         IN  shorter \cup {Append(s, x) : s \in {t \in shorter : Len(t) = n - 1}, x \in S}

RECURSIVE SortedSeq(_)
SortedSeq(S) ==
    IF S = {} THEN <<>>
    ELSE LET least == CHOOSE x \in S : \A y \in S : x <= y
         IN  <<least>> \o SortedSeq(S \ {least})

\* ------------------------------------------------------------ construction
\* (pl.col("yield_pct") / 100.0): the decimal yield as an exact rational
YieldDec(yield_pct) == [num |-> yield_pct, den |-> PctPerUnit]

\* required_columns - set(self.data.columns)
MissingColumnsMaturityOnly(table) == {"maturity"} \ table.columns

MissingColumns(table) == RequiredColumns \ table.columns

\* dict(zip(maturity, yield_dec)): a later row overwrites an earlier one
BuildCeyByWeeks(rows) ==
    LET keys == {rows[n].maturity : n \in 1..Len(rows)}
        last(t) == CHOOSE n \in 1..Len(rows) :
                       /\ rows[n].maturity = t
                       /\ \A n2 \in (n + 1)..Len(rows) : rows[n2].maturity # t
    IN  [t \in keys |-> YieldDec(rows[last(t)].yield_pct)]

\* sorted(self.cey_by_weeks.keys())
SortedTenors(cey) == SortedSeq(DOMAIN cey)

\* ------------------------------------------------------ horizon decomposer
decompose_stub_without_product(horizon_days, tenor_days) ==
    LET full_rolls == horizon_days \div tenor_days
        stub_days == horizon_days - full_rolls
    IN  [full_rolls |-> full_rolls, stub_days |-> stub_days]

decompose_horizon_into_full_rolls_and_stub(horizon_days, tenor_days) ==
    LET full_rolls == horizon_days \div tenor_days
        stub_days == horizon_days - full_rolls * tenor_days
    IN  [full_rolls |-> full_rolls, stub_days |-> stub_days]

\* ----------------------------------------------------- accumulation factor
\* (1 + y*m/dc)^k * (1 + y*r/dc) with dc := day_count_base, over the common
\* denominator unit = y.den * dc
sympy_accumulation_factor_without_stub(y, tenor_days, horizon_days, dc) ==
    LET d == decompose_horizon_into_full_rolls_and_stub(horizon_days, tenor_days)
    IN  [base |-> y.den * dc + y.num * tenor_days,
         k    |-> d.full_rolls,
         stub |-> y.den * dc,
         unit |-> y.den * dc]

sympy_accumulation_factor_constant_cey(y, tenor_days, horizon_days, dc) ==
    LET d == decompose_horizon_into_full_rolls_and_stub(horizon_days, tenor_days)
    IN  [base |-> y.den * dc + y.num * tenor_days,
         k    |-> d.full_rolls,
         stub |-> y.den * dc + y.num * d.stub_days,
         unit |-> y.den * dc]

sympy_rhs_accumulation_from_long_leg(y_long_decimal, long_tenor_days, horizon_days, dc) ==
    sympy_accumulation_factor_constant_cey(y_long_decimal, long_tenor_days, horizon_days, dc)

\* sign of the value of an accumulation factor
TargetSign(target) == SgnPow(Sgn(target.base), target.k) * Sgn(target.stub)

\* ------------------------------------------------------------------ solver
NaN == [finite |-> FALSE, gm |-> 0, gr |-> 0, via |-> "none", seed |-> 0]
Root(gm, gr, via, seed) == [finite |-> TRUE, gm |-> gm, gr |-> gr, via |-> via, seed |-> seed]

Returned(y, log) == [outcome |-> "return", y |-> y, log |-> log]
Raised(log) == [outcome |-> "raise", y |-> NaN, log |-> log]

\* sp.solve(Eq((1 + y*m/dc)**k, target), y) for real y: the real roots in
\* ascending order, each given by the sign of 1 + y*m/dc at the root
ClosedFormSolutions(target, k) ==
    LET s == TargetSign(target)
    IN  IF k % 2 = 1 THEN <<s>>
        ELSE IF s > 0 THEN <<-1, 1>>
        ELSE IF s = 0 THEN <<0>>
        ELSE <<>>

\* what one sp.nsolve call can do: raise (no convergence), or converge to a
\* real root of (1 + y*m/dc)^k * (1 + y*r/dc) = target with 0 < r < m
NsolveOutcomes(target, k) ==
    {[raised |-> TRUE, gm |-> 0, gr |-> 0]} \cup
    {[raised |-> FALSE, gm |-> gm, gr |-> gr] : <<gm, gr>> \in
        {p \in {-1, 0, 1} \X {-1, 0, 1} :
            /\ SgnPow(p[1], k) * p[2] = TargetSign(target)
            /\ (p[1] >= 0 => p[2] = 1)}}

Oracles(target, k) == [1..NumSeeds -> NsolveOutcomes(target, k)]

\* feasibility check of a candidate root (both period growths positive)
FeasibleStubOnly(root) == root.gr > 0

Feasible(root) == root.gm > 0 /\ root.gr > 0

\* for seed in (guess, guess - 0.02, guess + 0.02): try nsolve, return the
\* first feasible root, swallow any exception, NaN after the last seed
RECURSIVE TrySeedsStopAtFirstError(_, _, _)
TrySeedsStopAtFirstError(seed, oracle, log) ==
    IF seed > NumSeeds THEN Returned(NaN, log)
    ELSE LET attempt == oracle[seed]
             log2 == Append(log, SeedLabels[seed])
         IN  IF attempt.raised THEN Returned(NaN, log2)
             ELSE IF Feasible(attempt)
             THEN Returned(Root(attempt.gm, attempt.gr, "nsolve", seed), log2)
             ELSE TrySeedsStopAtFirstError(seed + 1, oracle, log2)

RECURSIVE TrySeedsTwoPasses(_, _, _)
TrySeedsTwoPasses(seed, oracle, log) ==
    IF seed > 2 * NumSeeds THEN Returned(NaN, log)
    ELSE LET n == ((seed - 1) % NumSeeds) + 1
             attempt == oracle[n]
             log2 == Append(log, SeedLabels[n])
         IN  IF ~attempt.raised /\ Feasible(attempt)
             THEN Returned(Root(attempt.gm, attempt.gr, "nsolve", n), log2)
             ELSE TrySeedsTwoPasses(seed + 1, oracle, log2)

RECURSIVE TrySeeds(_, _, _)
TrySeeds(seed, oracle, log) ==
    IF seed > NumSeeds THEN Returned(NaN, log)
    ELSE LET attempt == oracle[seed]
             log2 == Append(log, SeedLabels[seed])
         IN  IF ~attempt.raised /\ Feasible(attempt)
             THEN Returned(Root(attempt.gm, attempt.gr, "nsolve", seed), log2)
             ELSE TrySeeds(seed + 1, oracle, log2)

solve_y_be_zero_rolls_not_rejected(target, short_tenor_days, horizon_days, dc, oracle) ==
    LET d == decompose_horizon_into_full_rolls_and_stub(horizon_days, short_tenor_days)
        k_s_val == d.full_rolls
        r_s_val == d.stub_days
    IN  IF k_s_val < 0 THEN Returned(NaN, <<"decompose">>)
        ELSE IF r_s_val = 0
        THEN LET solutions == ClosedFormSolutions(target, k_s_val)
             IN  IF solutions = <<>>
                 THEN Returned(NaN, <<"decompose", "solve">>)
                 ELSE Returned(Root(solutions[1], 1, "closed", 0), <<"decompose", "solve">>)
        ELSE IF TargetSign(target) < 0
        THEN Raised(<<"decompose", "guess">>)
        ELSE TrySeeds(1, oracle, <<"decompose", "guess">>)

solve_y_be_closed_form_for_single_roll(target, short_tenor_days, horizon_days, dc, oracle) ==
    LET d == decompose_horizon_into_full_rolls_and_stub(horizon_days, short_tenor_days)
        k_s_val == d.full_rolls
        r_s_val == d.stub_days
    IN  IF k_s_val <= 0 THEN Returned(NaN, <<"decompose">>)
        ELSE IF r_s_val = 0 \/ k_s_val = 1
        THEN LET solutions == ClosedFormSolutions(target, k_s_val)
             IN  IF solutions = <<>>
                 THEN Returned(NaN, <<"decompose", "solve">>)
                 ELSE Returned(Root(solutions[1], 1, "closed", 0), <<"decompose", "solve">>)
        ELSE IF TargetSign(target) < 0
        THEN Raised(<<"decompose", "guess">>)
        ELSE TrySeeds(1, oracle, <<"decompose", "guess">>)

solve_y_be_self_consistent_against_accumulation_level(target, short_tenor_days, horizon_days, dc, oracle) ==
    LET d == decompose_horizon_into_full_rolls_and_stub(horizon_days, short_tenor_days)
        k_s_val == d.full_rolls
        r_s_val == d.stub_days
    IN  IF k_s_val <= 0 THEN Returned(NaN, <<"decompose">>)
        ELSE IF r_s_val = 0
        THEN LET solutions == ClosedFormSolutions(target, k_s_val)
             IN  IF solutions = <<>>
                 THEN Returned(NaN, <<"decompose", "solve">>)
                 ELSE Returned(Root(solutions[1], 1, "closed", 0), <<"decompose", "solve">>)
        ELSE IF TargetSign(target) < 0
        THEN Raised(<<"decompose", "guess">>)
        ELSE TrySeeds(1, oracle, <<"decompose", "guess">>)

\* every result the solver can give for these arguments
SolverResults(target, short_tenor_days, horizon_days, dc) ==
    LET k == decompose_horizon_into_full_rolls_and_stub(horizon_days, short_tenor_days).full_rolls
    IN  {solve_y_be_self_consistent_against_accumulation_level(
             target, short_tenor_days, horizon_days, dc, oracle) :
         oracle \in Oracles(target, k)}

\* sympy is deterministic: a solver call with the arguments of an earlier
\* call (of this or of the previous batch) gives the result it gave then
LibraryResults(target, short_tenor_days, horizon_days, dc, seen) ==
    LET known == {a.result : a \in {b \in seen : /\ b.target = target
                                                 /\ b.short_tenor_days = short_tenor_days
                                                 /\ b.horizon_days = horizon_days}}
    IN  IF known # {} THEN known
        ELSE SolverResults(target, short_tenor_days, horizon_days, dc)

\* ------------------------------------------------------- pair iteration
\* "if m_long_days > self.day_count_base: continue" and the same test on
\* m_short_days
TenorTooLongDropped(tenor_days, horizon_days) == FALSE

TenorTooLong(tenor_days, horizon_days) == tenor_days > horizon_days

\* "if shorter_weeks >= longer_weeks: continue"
NotShorterOffByOne(shorter_weeks, longer_weeks) == shorter_weeks > longer_weeks

NotShorter(shorter_weeks, longer_weeks) == shorter_weeks >= longer_weeks

\* math.isfinite(y_be_dec)
IsFiniteAlways(y) == TRUE

IsFinite(y) == y.finite

\* -------------------------------------------------------- table assembly
Percent(y) == (PctPerUnit * y.num) \div y.den

ResultRow(shorter_weeks, longer_weeks, cey, y_be) ==
    [shorter     |-> shorter_weeks,
     shorter_cey |-> Percent(cey[shorter_weeks]),
     longer      |-> longer_weeks,
     longer_cey  |-> Percent(cey[longer_weeks]),
     y_be        |-> y_be]

\* .sort(["Longer Maturity (weeks)", "Shorter Maturity (weeks)"])
RowBeforeDescending(a, b) ==
    \/ a.longer > b.longer
    \/ a.longer = b.longer /\ a.shorter > b.shorter

RowBefore(a, b) ==
    \/ a.longer < b.longer
    \/ a.longer = b.longer /\ a.shorter < b.shorter

RECURSIVE InsertRow(_, _)
InsertRow(sorted, row) ==
    IF sorted = <<>> THEN <<row>>
    ELSE IF RowBefore(row, Head(sorted)) THEN <<row>> \o sorted
    ELSE <<Head(sorted)>> \o InsertRow(Tail(sorted), row)

RECURSIVE SortRows(_)
SortRows(rows) ==
    IF rows = <<>> THEN <<>>
    ELSE InsertRow(SortRows(SubSeq(rows, 1, Len(rows) - 1)), rows[Len(rows)])

\* ------------------------------------------------------------------ inputs
RowsFor(columns) ==
    SeqsUpTo({[maturity  |-> IF "maturity" \in columns THEN t ELSE 0,
               yield_pct |-> IF "yield_pct" \in columns THEN y ELSE 0] :
              t \in TenorWeeks, y \in YieldPcts}, MaxRows)

Tables == UNION {{[columns |-> c, rows |-> r] : r \in RowsFor(c)} : c \in SUBSET RequiredColumns}

NoTarget == [base |-> 0, k |-> 0, stub |-> 0, unit |-> 1]
NoProbe == [op |-> "none", horizon_days |-> 0, tenor_days |-> 0, target |-> NoTarget,
            full_rolls |-> 0, stub_days |-> 0, result |-> Returned(NaN, <<>>),
            oracle |-> <<>>]
\* targets handed to a direct solver call: -2, 0 and 2
ProbeTargets == {[base |-> b, k |-> 1, stub |-> 1, unit |-> 1] : b \in {-2, 0, 2}}

NoPrevious == [pc |-> "none", table |-> <<>>, error |-> "none", attempts |-> <<>>]
\* _y = sp.symbols("y", real=True); _dc = sp.symbols("dc", positive=True)
ClassSymbols == [y |-> "y", dc |-> "dc"]

NoStats == [rows_processed |-> 0, rows_inserted |-> 0, rows_updated |-> 0]
NoMerge == [done |-> FALSE, before |-> <<>>, inserted |-> 0, updated |-> 0]
NoFrame == [columns |-> {}, rows |-> <<>>]

\* a file of app/data as the previous run of main left it
PreviousRun == [run |-> "previous", rows |-> <<>>]

\* main not started
MainIdle ==
    /\ main_pc = "start"
    /\ main_steps = <<>>
    /\ daily_yields_csv = PreviousRun
    /\ break_even_yields_csv = PreviousRun

\* no upsert_data call made yet, the table empty
UpsertIdle ==
    /\ target_table = <<>>
    /\ data = NoFrame
    /\ up_pc = "idle"
    /\ stats = NoStats
    /\ to_insert_count = 0
    /\ queries = <<>>
    /\ merged = NoMerge
    /\ up_error = "none"
    /\ upserts = 0
    /\ commits = 0
    /\ repeated = FALSE

Init ==
    /\ input_table \in Tables
    /\ day_count_base \in MinBase..MaxBase
    /\ days_per_week \in 1..MaxDaysPerWeek
    /\ obj = "new"
    /\ cey_by_weeks = <<>>
    /\ available_tenors_weeks = <<>>
    /\ pc = "idle"
    /\ i = 0
    /\ j = 0
    /\ rhs_accum_val = NoTarget
    /\ results = <<>>
    /\ y_be_table = <<>>
    /\ error = "none"
    /\ attempts = <<>>
    /\ probe = NoProbe
    /\ call = 1
    /\ previous = NoPrevious
    /\ symbols = ClassSymbols
    /\ UpsertIdle
    /\ MainIdle

\* ----------------------------------------------------------------- actions
\* TreasuryBillAnalytics.__init__
Construct ==
    /\ obj = "new"
    /\ IF MissingColumns(input_table) # {}
       THEN /\ obj' = "failed"
            /\ error' = "ValueError"
            /\ UNCHANGED <<cey_by_weeks, available_tenors_weeks>>
       ELSE /\ obj' = "constructed"
            /\ cey_by_weeks' = BuildCeyByWeeks(input_table.rows)
            /\ available_tenors_weeks' = SortedTenors(BuildCeyByWeeks(input_table.rows))
            /\ UNCHANGED error
    /\ UNCHANGED <<input_table, day_count_base, days_per_week, pc, i, j,
                   rhs_accum_val, results, y_be_table, attempts, probe>>
    /\ UNCHANGED <<call, previous, symbols>>
    /\ UNCHANGED upsert_vars
    /\ UNCHANGED main_vars

\* a direct call of _decompose_horizon_into_full_rolls_and_stub
CallDecompose ==
    /\ obj = "constructed"
    /\ pc = "idle"
    /\ probe.op = "none"
    /\ \E horizon_days \in 1..MaxProbeDays, tenor_days \in 1..MaxProbeDays :
         LET d == decompose_horizon_into_full_rolls_and_stub(horizon_days, tenor_days)
         IN  probe' = [NoProbe EXCEPT !.op = "decompose",
                                      !.horizon_days = horizon_days,
                                      !.tenor_days = tenor_days,
                                      !.full_rolls = d.full_rolls,
                                      !.stub_days = d.stub_days]
    /\ UNCHANGED <<input_table, day_count_base, days_per_week, obj, cey_by_weeks,
                   available_tenors_weeks, pc, i, j, rhs_accum_val, results,
                   y_be_table, error, attempts>>
    /\ UNCHANGED <<call, previous, symbols>>
    /\ UNCHANGED upsert_vars
    /\ UNCHANGED main_vars

\* a direct call of _solve_y_be_self_consistent_against_accumulation_level
CallSolver ==
    /\ obj = "constructed"
    /\ pc = "idle"
    /\ probe.op = "none"
    /\ \E target \in ProbeTargets, horizon_days \in 1..MaxProbeDays,
          tenor_days \in 1..MaxProbeDays :
         \E res \in SolverResults(target, tenor_days, horizon_days, day_count_base) :
           LET d == decompose_horizon_into_full_rolls_and_stub(horizon_days, tenor_days)
           IN  probe' = [NoProbe EXCEPT !.op = "solve",
                                        !.horizon_days = horizon_days,
                                        !.tenor_days = tenor_days,
                                        !.target = target,
                                        !.full_rolls = d.full_rolls,
                                        !.stub_days = d.stub_days,
                                        !.result = res]
    /\ UNCHANGED <<input_table, day_count_base, days_per_week, obj, cey_by_weeks,
                   available_tenors_weeks, pc, i, j, rhs_accum_val, results,
                   y_be_table, error, attempts>>
    /\ UNCHANGED <<call, previous, symbols>>
    /\ UNCHANGED upsert_vars
    /\ UNCHANGED main_vars

\* the same direct call, with what each nsolve attempt would do written down
CallSolverTraced ==
    /\ obj = "constructed"
    /\ pc = "idle"
    /\ probe.op = "none"
    /\ \E target \in ProbeTargets, horizon_days \in 1..MaxProbeDays,
          tenor_days \in 1..MaxProbeDays :
         LET d == decompose_horizon_into_full_rolls_and_stub(horizon_days, tenor_days)
         IN  \E oracle \in Oracles(target, d.full_rolls) :
               probe' = [NoProbe EXCEPT !.op = "solve",
                                        !.horizon_days = horizon_days,
                                        !.tenor_days = tenor_days,
                                        !.target = target,
                                        !.full_rolls = d.full_rolls,
                                        !.stub_days = d.stub_days,
                                        !.result = solve_y_be_self_consistent_against_accumulation_level(
                                                       target, tenor_days, horizon_days,
                                                       day_count_base, oracle),
                                        !.oracle = oracle]
    /\ UNCHANGED <<input_table, day_count_base, days_per_week, obj, cey_by_weeks,
                   available_tenors_weeks, pc, i, j, rhs_accum_val, results,
                   y_be_table, error, attempts>>
    /\ UNCHANGED <<call, previous, symbols>>
    /\ UNCHANGED upsert_vars
    /\ UNCHANGED main_vars

\* results = [] on entry of compute_break_even_rates
FreshResultsKept(old_results) == old_results

FreshResults(old_results) == <<>>

\* compute_break_even_rates is entered: results = []
BeginCompute ==
    /\ obj = "constructed"
    /\ pc = "idle"
    /\ pc' = "outer"
    /\ i' = 1
    /\ j' = 0
    /\ results' = FreshResults(results)
    /\ attempts' = <<>>
    /\ probe' = NoProbe
    /\ UNCHANGED <<input_table, day_count_base, days_per_week, obj, cey_by_weeks,
                   available_tenors_weeks, rhs_accum_val, y_be_table, error>>
    /\ UNCHANGED <<call, previous, symbols>>
    /\ UNCHANGED upsert_vars
    /\ UNCHANGED main_vars

\* one pass of "for longer_weeks in self.available_tenors_weeks" up to the
\* inner loop
OuterStepDroppingTenor ==
    /\ pc = "outer"
    /\ IF i > Len(available_tenors_weeks)
       THEN /\ pc' = "assemble"
            /\ UNCHANGED <<i, j, rhs_accum_val, available_tenors_weeks>>
       ELSE LET longer_weeks == available_tenors_weeks[i]
                m_long_days == longer_weeks * days_per_week
            IN  IF TenorTooLong(m_long_days, day_count_base)
                THEN /\ available_tenors_weeks' =
                            SubSeq(available_tenors_weeks, 1, i - 1) \o
                            SubSeq(available_tenors_weeks, i + 1,
                                   Len(available_tenors_weeks))
                     /\ UNCHANGED <<pc, i, j, rhs_accum_val>>
                ELSE /\ rhs_accum_val' = sympy_rhs_accumulation_from_long_leg(
                                             cey_by_weeks[longer_weeks], m_long_days,
                                             day_count_base, day_count_base)
                     /\ j' = 1
                     /\ pc' = "inner"
                     /\ UNCHANGED <<i, available_tenors_weeks>>
    /\ UNCHANGED <<input_table, day_count_base, days_per_week, obj, cey_by_weeks,
                   results, y_be_table, error, attempts, probe>>
    /\ UNCHANGED <<call, previous, symbols>>
    /\ UNCHANGED upsert_vars
    /\ UNCHANGED main_vars

OuterStep ==
    /\ pc = "outer"
    /\ IF i > Len(available_tenors_weeks)
       THEN /\ pc' = "assemble"
            /\ UNCHANGED <<i, j, rhs_accum_val>>
       ELSE LET longer_weeks == available_tenors_weeks[i]
                m_long_days == longer_weeks * days_per_week
            IN  IF TenorTooLong(m_long_days, day_count_base)
                THEN /\ i' = i + 1
                     /\ UNCHANGED <<pc, j, rhs_accum_val>>
                ELSE /\ rhs_accum_val' = sympy_rhs_accumulation_from_long_leg(
                                             cey_by_weeks[longer_weeks], m_long_days,
                                             day_count_base, day_count_base)
                     /\ j' = 1
                     /\ pc' = "inner"
                     /\ UNCHANGED i
    /\ UNCHANGED <<input_table, day_count_base, days_per_week, obj, cey_by_weeks,
                   available_tenors_weeks, results, y_be_table, error, attempts, probe>>
    /\ UNCHANGED <<call, previous, symbols>>
    /\ UNCHANGED upsert_vars
    /\ UNCHANGED main_vars

\* one pass of "for shorter_weeks in self.available_tenors_weeks"
InnerStepFixedHorizon ==
    /\ pc = "inner"
    /\ IF j > Len(available_tenors_weeks)
       THEN /\ pc' = "outer"
            /\ i' = i + 1
            /\ UNCHANGED <<j, results, error, attempts>>
       ELSE LET longer_weeks == available_tenors_weeks[i]
                shorter_weeks == available_tenors_weeks[j]
                m_short_days == shorter_weeks * days_per_week
            IN  IF NotShorter(shorter_weeks, longer_weeks) \/ TenorTooLong(m_short_days, day_count_base)
                THEN /\ j' = j + 1
                     /\ UNCHANGED <<pc, i, results, error, attempts>>
                ELSE \E res \in LibraryResults(rhs_accum_val, m_short_days,
                                               MaxBase, day_count_base,
                                               {attempts[n] : n \in 1..Len(attempts)} \cup
                                               {previous.attempts[n] :
                                                    n \in 1..Len(previous.attempts)}) :
                       /\ attempts' = Append(attempts,
                              [shorter |-> shorter_weeks, longer |-> longer_weeks,
                               short_tenor_days |-> m_short_days,
                               horizon_days |-> MaxBase,
                               target |-> rhs_accum_val, result |-> res])
                       /\ IF res.outcome = "raise"
                          THEN /\ pc' = "raised"
                               /\ error' = "TypeError"
                               /\ UNCHANGED <<i, j, results>>
                          ELSE /\ results' = IF IsFinite(res.y)
                                             THEN Append(results,
                                                      ResultRow(shorter_weeks, longer_weeks,
                                                                cey_by_weeks, res.y))
                                             ELSE results
                               /\ j' = j + 1
                               /\ UNCHANGED <<pc, i, error>>
    /\ UNCHANGED <<input_table, day_count_base, days_per_week, obj, cey_by_weeks,
                   available_tenors_weeks, rhs_accum_val, y_be_table, probe>>
    /\ UNCHANGED <<call, previous, symbols>>
    /\ UNCHANGED upsert_vars
    /\ UNCHANGED main_vars

InnerStep ==
    /\ pc = "inner"
    /\ IF j > Len(available_tenors_weeks)
       THEN /\ pc' = "outer"
            /\ i' = i + 1
            /\ UNCHANGED <<j, results, error, attempts>>
       ELSE LET longer_weeks == available_tenors_weeks[i]
                shorter_weeks == available_tenors_weeks[j]
                m_short_days == shorter_weeks * days_per_week
            IN  IF NotShorter(shorter_weeks, longer_weeks) \/ TenorTooLong(m_short_days, day_count_base)
                THEN /\ j' = j + 1
                     /\ UNCHANGED <<pc, i, results, error, attempts>>
                ELSE \E res \in LibraryResults(rhs_accum_val, m_short_days,
                                               day_count_base, day_count_base,
                                               {attempts[n] : n \in 1..Len(attempts)} \cup
                                               {previous.attempts[n] :
                                                    n \in 1..Len(previous.attempts)}) :
                       /\ attempts' = Append(attempts,
                              [shorter |-> shorter_weeks, longer |-> longer_weeks,
                               short_tenor_days |-> m_short_days,
                               horizon_days |-> day_count_base,
                               target |-> rhs_accum_val, result |-> res])
                       /\ IF res.outcome = "raise"
                          THEN /\ pc' = "raised"
                               /\ error' = "TypeError"
                               /\ UNCHANGED <<i, j, results>>
                          ELSE /\ results' = IF IsFinite(res.y)
                                             THEN Append(results,
                                                      ResultRow(shorter_weeks, longer_weeks,
                                                                cey_by_weeks, res.y))
                                             ELSE results
                               /\ j' = j + 1
                               /\ UNCHANGED <<pc, i, error>>
    /\ UNCHANGED <<input_table, day_count_base, days_per_week, obj, cey_by_weeks,
                   available_tenors_weeks, rhs_accum_val, y_be_table, probe>>
    /\ UNCHANGED <<call, previous, symbols>>
    /\ UNCHANGED upsert_vars
    /\ UNCHANGED main_vars

\* pl.from_dicts(results).sort([...]); from_dicts has no schema to infer from
\* an empty list and raises NoDataError
Assemble ==
    /\ pc = "assemble"
    /\ IF results = <<>>
       THEN /\ pc' = "raised"
            /\ error' = "NoDataError"
            /\ UNCHANGED y_be_table
       ELSE /\ pc' = "done"
            /\ y_be_table' = SortRows(results)
            /\ UNCHANGED error
    /\ UNCHANGED <<input_table, day_count_base, days_per_week, obj, cey_by_weeks,
                   available_tenors_weeks, i, j, rhs_accum_val, results, attempts, probe>>
    /\ UNCHANGED <<call, previous, symbols>>
    /\ UNCHANGED upsert_vars
    /\ UNCHANGED main_vars

\* the call has returned or raised; compute_break_even_rates is called once
\* more with the same inputs, on this object or on one constructed anew
\* from the same table
CallAgain ==
    /\ obj = "constructed"
    /\ pc \in {"done", "raised"}
    /\ call < MaxCalls
    /\ call' = call + 1
    /\ previous' = [pc |-> pc, table |-> y_be_table, error |-> error,
                    attempts |-> attempts]
    /\ \E anew \in BOOLEAN :
         /\ cey_by_weeks' = IF anew THEN BuildCeyByWeeks(input_table.rows)
                            ELSE cey_by_weeks
         /\ available_tenors_weeks' =
                IF anew THEN SortedTenors(BuildCeyByWeeks(input_table.rows))
                ELSE available_tenors_weeks
    /\ pc' = "outer"
    /\ i' = 1
    /\ j' = 0
    /\ results' = FreshResults(results)
    /\ y_be_table' = <<>>
    /\ error' = "none"
    /\ attempts' = <<>>
    /\ UNCHANGED <<input_table, day_count_base, days_per_week, obj, rhs_accum_val,
                   probe, symbols>>
    /\ UNCHANGED upsert_vars
    /\ UNCHANGED main_vars

Next ==
    \/ Construct
    \/ BeginCompute
    \/ OuterStep
    \/ InnerStep
    \/ Assemble

Spec == Init /\ [][Next]_vars

\* the object with its helpers also called directly, on the smaller tables
InitCalls ==
    /\ Init
    /\ Len(input_table.rows) <= MaxProbeRows

NextCalls ==
    \/ Construct
    \/ CallDecompose
    \/ CallSolver
    \/ BeginCompute
    \/ OuterStep
    \/ InnerStep
    \/ Assemble

SpecCalls == InitCalls /\ [][NextCalls]_vars

\* compute_break_even_rates called repeatedly, on the smaller tables
NextTwice ==
    \/ Construct
    \/ BeginCompute
    \/ OuterStep
    \/ InnerStep
    \/ Assemble
    \/ CallAgain

SpecTwice == InitCalls /\ [][NextTwice]_vars

\* the solver alone, called directly on an object built from an empty table
InitSolver ==
    /\ Init
    /\ input_table = [columns |-> RequiredColumns, rows |-> <<>>]

NextSolver ==
    \/ Construct
    \/ CallSolverTraced

SpecSolver == InitSolver /\ [][NextSolver]_vars

\* ------------------------------------------------------------- upsert_data
UpsertColumns == {"date", "maturity", "yield_pct", "scrape_timestamp"}
Dates == {1}
Maturities == {4, 8}
UpsertYields == {5, 6}
\* datetimes: a wall-clock reading, naive or with a UTC offset
ScrapeTimestamps == {[wall |-> 2, aware |-> TRUE, utcoffset |-> 1],
                     [wall |-> 2, aware |-> FALSE, utcoffset |-> 0]}

\* _format_python_value for a datetime: a naive value is taken as UTC, an
\* aware one is converted to UTC; the literal denotes the UTC instant
FormatTimestamp(value) ==
    IF ~value.aware THEN value.wall ELSE value.wall - value.utcoffset

\* _format_python_value for date, int and float: str() of an int or a float
\* and isoformat() of a date denote the value itself
FormatValue(value) == value

\* _values_clause: the rows as the source relation of the three statements
ValuesClause(rows) ==
    [n \in 1..Len(rows) |->
        [date             |-> FormatValue(rows[n].date),
         maturity         |-> FormatValue(rows[n].maturity),
         yield_pct        |-> FormatValue(rows[n].yield_pct),
         scrape_timestamp |-> FormatTimestamp(rows[n].scrape_timestamp)]]

\* ON target.date = source.date AND target.maturity = source.maturity
SameKey(t, src) == t.date = src.date /\ t.maturity = src.maturity

\* source.scrape_timestamp > target.scrape_timestamp
NewerOrEqual(src, t) == src.scrape_timestamp >= t.scrape_timestamp

Newer(src, t) == src.scrape_timestamp > t.scrape_timestamp

\* the table is a bag of rows; it is kept as the sequence ordered by RowCode
RowCode(r) == ((r.date * 10 + r.maturity) * 10 + r.yield_pct) * 10 + r.scrape_timestamp

RECURSIVE InsertByCode(_, _)
InsertByCode(sorted, row) ==
    IF sorted = <<>> THEN <<row>>
    ELSE IF RowCode(row) <= RowCode(Head(sorted)) THEN <<row>> \o sorted
    ELSE <<Head(sorted)>> \o InsertByCode(Tail(sorted), row)

RECURSIVE Canonical(_)
Canonical(rows) ==
    IF rows = <<>> THEN <<>>
    ELSE InsertByCode(Canonical(SubSeq(rows, 1, Len(rows) - 1)), rows[Len(rows)])

\* to_insert_count_query: source LEFT JOIN target ... WHERE target.date IS NULL
ToInsertCount(source, tgt) ==
    Cardinality({n \in 1..Len(source) :
                     \A m \in 1..Len(tgt) : ~SameKey(tgt[m], source[n])})

\* to_update_count_query: source INNER JOIN target ... WHERE
\* source.scrape_timestamp > target.scrape_timestamp
ToUpdateCountAllMatched(source, tgt) ==
    Cardinality({p \in (1..Len(source)) \X (1..Len(tgt)) :
                     SameKey(tgt[p[2]], source[p[1]])})

ToUpdateCount(source, tgt) ==
    Cardinality({p \in (1..Len(source)) \X (1..Len(tgt)) :
                     /\ SameKey(tgt[p[2]], source[p[1]])
                     /\ Newer(source[p[1]], tgt[p[2]])})

\* upsert_query: MERGE INTO target USING source ON key
\*   WHEN NOT MATCHED THEN INSERT
\*   WHEN MATCHED AND source.scrape_timestamp > target.scrape_timestamp
\*       THEN UPDATE SET yield_pct, scrape_timestamp
\* The statement fails when one target row is to be updated from more than
\* one source row; when a target row is matched by several source rows of
\* which at most one is newer the engine may fail or apply the statement.
MergeResultsOverwriteMatched(source, tgt) ==
    LET matches(m) == {n \in 1..Len(source) : SameKey(tgt[m], source[n])}
        updates(m) == matches(m)
        unmatched == {n \in 1..Len(source) :
                          \A m \in 1..Len(tgt) : ~SameKey(tgt[m], source[n])}
        kept == [m \in 1..Len(tgt) |->
                    IF updates(m) = {} THEN tgt[m]
                    ELSE LET src == source[CHOOSE n \in updates(m) : TRUE]
                         IN  [tgt[m] EXCEPT !.yield_pct = src.yield_pct,
                                            !.scrape_timestamp = src.scrape_timestamp]]
        isUnmatched(r) == \A m \in 1..Len(tgt) : ~SameKey(tgt[m], r)
        applied == [failed   |-> FALSE,
                    target   |-> Canonical(kept \o SelectSeq(source, isUnmatched)),
                    inserted |-> Cardinality(unmatched),
                    updated  |-> Cardinality({m \in 1..Len(tgt) : updates(m) # {}})]
        failure == [failed |-> TRUE, target |-> tgt, inserted |-> 0, updated |-> 0]
    IN  IF \E m \in 1..Len(tgt) : Cardinality(updates(m)) > 1 THEN {failure}
        ELSE IF \E m \in 1..Len(tgt) : Cardinality(matches(m)) > 1
        THEN {failure, applied}
        ELSE {applied}

MergeResults(source, tgt) ==
    LET matches(m) == {n \in 1..Len(source) : SameKey(tgt[m], source[n])}
        updates(m) == {n \in matches(m) : Newer(source[n], tgt[m])}
        unmatched == {n \in 1..Len(source) :
                          \A m \in 1..Len(tgt) : ~SameKey(tgt[m], source[n])}
        kept == [m \in 1..Len(tgt) |->
                    IF updates(m) = {} THEN tgt[m]
                    ELSE LET src == source[CHOOSE n \in updates(m) : TRUE]
                         IN  [tgt[m] EXCEPT !.yield_pct = src.yield_pct,
                                            !.scrape_timestamp = src.scrape_timestamp]]
        isUnmatched(r) == \A m \in 1..Len(tgt) : ~SameKey(tgt[m], r)
        applied == [failed   |-> FALSE,
                    target   |-> Canonical(kept \o SelectSeq(source, isUnmatched)),
                    inserted |-> Cardinality(unmatched),
                    updated  |-> Cardinality({m \in 1..Len(tgt) : updates(m) # {}})]
        failure == [failed |-> TRUE, target |-> tgt, inserted |-> 0, updated |-> 0]
    IN  IF \E m \in 1..Len(tgt) : Cardinality(updates(m)) > 1 THEN {failure}
        ELSE IF \E m \in 1..Len(tgt) : Cardinality(matches(m)) > 1
        THEN {failure, applied}
        ELSE {applied}

\* the frames upsert_data is called with: every bag of at most MaxBatch rows
\* with all four columns, and frames lacking one column
SourceRows ==
    [date : Dates, maturity : Maturities, yield_pct : UpsertYields,
     scrape_timestamp : ScrapeTimestamps]

SourceCode(r) ==
    RowCode([r EXCEPT !.scrape_timestamp = FormatTimestamp(r.scrape_timestamp)])

Batches ==
    {b \in SeqsUpTo(SourceRows, MaxBatch) :
         \A n \in 1..(Len(b) - 1) : SourceCode(b[n]) <= SourceCode(b[n + 1])}

Frames ==
    {[columns |-> UpsertColumns, rows |-> b] : b \in Batches}
    \cup UNION {{[columns |-> UpsertColumns \ {c}, rows |-> <<>>],
                 [columns |-> UpsertColumns \ {c},
                  rows |-> <<[col \in UpsertColumns \ {c} |->
                                 (CHOOSE r \in SourceRows : TRUE)[col]]>>]} :
                c \in UpsertColumns}

\* upsert_data is entered: stats, "if len(data) == 0: return stats", then the
\* test for the required columns
UpsertCallWith(frame) ==
    /\ up_pc \in {"idle", "returned", "raised"}
    /\ upserts < MaxUpserts
    /\ upserts' = upserts + 1
    /\ data' = frame
    /\ repeated' = (frame = data /\ up_pc = "returned" /\ merged.done)
    /\ stats' = [rows_processed |-> Len(frame.rows),
                 rows_inserted  |-> 0,
                 rows_updated   |-> 0]
    /\ IF Len(frame.rows) = 0
       THEN up_pc' = "returned" /\ up_error' = "none"
       ELSE IF UpsertColumns \ frame.columns # {}
       THEN up_pc' = "raised" /\ up_error' = "ValueError"
       ELSE up_pc' = "count_insert" /\ up_error' = "none"
    /\ to_insert_count' = 0
    /\ queries' = <<>>
    /\ merged' = NoMerge
    /\ UNCHANGED target_table
    /\ UNCHANGED analytics_vars
    /\ UNCHANGED main_vars
    /\ UNCHANGED commits

\* upsert_data called with any of the frames
UpsertCallWithoutEarlyReturn ==
    /\ up_pc \in {"idle", "returned", "raised"}
    /\ upserts < MaxUpserts
    /\ upserts' = upserts + 1
    /\ \E frame \in Frames :
         /\ data' = frame
         /\ repeated' = (frame = data /\ up_pc = "returned" /\ merged.done)
         /\ stats' = [rows_processed |-> Len(frame.rows),
                      rows_inserted  |-> 0,
                      rows_updated   |-> 0]
         /\ IF UpsertColumns \ frame.columns # {}
            THEN up_pc' = "raised" /\ up_error' = "ValueError"
            ELSE up_pc' = "count_insert" /\ up_error' = "none"
    /\ to_insert_count' = 0
    /\ queries' = <<>>
    /\ merged' = NoMerge
    /\ UNCHANGED target_table
    /\ UNCHANGED analytics_vars
    /\ UNCHANGED main_vars
    /\ UNCHANGED commits

UpsertCall == \E frame \in Frames : UpsertCallWith(frame)

\* self._select_query(to_insert_count_query)
SelectToInsertCount ==
    /\ up_pc = "count_insert"
    /\ to_insert_count' = ToInsertCount(ValuesClause(data.rows), target_table)
    /\ queries' = Append(queries, "to_insert_count_query")
    /\ up_pc' = "count_update"
    /\ UNCHANGED <<target_table, data, stats, merged, up_error, upserts>>
    /\ UNCHANGED analytics_vars
    /\ UNCHANGED main_vars
    /\ UNCHANGED <<commits, repeated>>

\* self._select_query(to_update_count_query) and the two assignments to stats
SelectToUpdateCount ==
    /\ up_pc = "count_update"
    /\ stats' = [stats EXCEPT
                    !.rows_inserted = to_insert_count,
                    !.rows_updated = ToUpdateCount(ValuesClause(data.rows), target_table)]
    /\ queries' = Append(queries, "to_update_count_query")
    /\ up_pc' = "merge"
    /\ UNCHANGED <<target_table, data, to_insert_count, merged, up_error, upserts>>
    /\ UNCHANGED analytics_vars
    /\ UNCHANGED main_vars
    /\ UNCHANGED <<commits, repeated>>

\* self._execute_query(upsert_query) and "return stats"; a failed statement
\* leaves the table as it was and wait_query raises
ExecuteMerge ==
    /\ up_pc = "merge"
    /\ queries' = Append(queries, "upsert_query")
    /\ \E res \in MergeResults(ValuesClause(data.rows), target_table) :
         /\ target_table' = res.target
         /\ merged' = [done |-> ~res.failed, before |-> target_table,
                       inserted |-> res.inserted, updated |-> res.updated]
         /\ IF res.failed
            THEN up_pc' = "raised" /\ up_error' = "QueryFailed"
            ELSE up_pc' = "returned" /\ up_error' = "none"
    /\ UNCHANGED <<data, stats, to_insert_count, upserts>>
    /\ UNCHANGED analytics_vars
    /\ UNCHANGED main_vars
    /\ UNCHANGED <<commits, repeated>>

\* upsert_data alone, the analytics object never constructed
InitUpsert ==
    /\ input_table = [columns |-> RequiredColumns, rows |-> <<>>]
    /\ day_count_base = MinBase
    /\ days_per_week = 1
    /\ obj = "new"
    /\ cey_by_weeks = <<>>
    /\ available_tenors_weeks = <<>>
    /\ pc = "idle"
    /\ i = 0
    /\ j = 0
    /\ rhs_accum_val = NoTarget
    /\ results = <<>>
    /\ y_be_table = <<>>
    /\ error = "none"
    /\ attempts = <<>>
    /\ probe = NoProbe
    /\ call = 1
    /\ previous = NoPrevious
    /\ symbols = ClassSymbols
    /\ UpsertIdle
    /\ MainIdle

NextUpsert ==
    \/ UpsertCall
    \/ SelectToInsertCount
    \/ SelectToUpdateCount
    \/ ExecuteMerge

SpecUpsert == InitUpsert /\ [][NextUpsert]_vars

\* another process commits a row to the table while a call of upsert_data
\* is between its statements: the three statements are three separate
\* Athena queries, the table is not locked between them
CommittedRows == {ValuesClause(<<r>>)[1] : r \in SourceRows}

OtherWriterCommits ==
    /\ up_pc \in {"count_insert", "count_update", "merge"}
    /\ commits < MaxOtherCommits
    /\ commits' = commits + 1
    /\ \E row \in CommittedRows :
         \E res \in MergeResults(<<row>>, target_table) :
             /\ ~res.failed
             /\ res.target # target_table
             /\ target_table' = res.target
    /\ UNCHANGED <<data, up_pc, stats, to_insert_count, queries, merged, up_error,
                   upserts>>
    /\ UNCHANGED repeated
    /\ UNCHANGED analytics_vars
    /\ UNCHANGED main_vars

\* the tables earlier calls leave behind when no batch repeats a key
KeyUniqueTables ==
    {Canonical(ValuesClause(b)) :
         b \in {c \in Batches :
                    \A n, m \in 1..Len(c) :
                        (c[n].date = c[m].date /\ c[n].maturity = c[m].maturity)
                            => n = m}}

\* the last upsert_data call of a run, other writers active
InitWriters ==
    /\ input_table = [columns |-> RequiredColumns, rows |-> <<>>]
    /\ day_count_base = MinBase
    /\ days_per_week = 1
    /\ obj = "new"
    /\ cey_by_weeks = <<>>
    /\ available_tenors_weeks = <<>>
    /\ pc = "idle"
    /\ i = 0
    /\ j = 0
    /\ rhs_accum_val = NoTarget
    /\ results = <<>>
    /\ y_be_table = <<>>
    /\ error = "none"
    /\ attempts = <<>>
    /\ probe = NoProbe
    /\ call = 1
    /\ previous = NoPrevious
    /\ symbols = ClassSymbols
    /\ target_table \in KeyUniqueTables
    /\ data = NoFrame
    /\ up_pc = "idle"
    /\ stats = NoStats
    /\ to_insert_count = 0
    /\ queries = <<>>
    /\ merged = NoMerge
    /\ up_error = "none"
    /\ upserts = MaxUpserts - 1
    /\ commits = 0
    /\ repeated = FALSE
    /\ MainIdle

NextWriters ==
    \/ UpsertCall
    \/ SelectToInsertCount
    \/ SelectToUpdateCount
    \/ ExecuteMerge
    \/ OtherWriterCommits

SpecWriters == InitWriters /\ [][NextWriters]_vars

\* ------------------------------------------------------------------- main
\* the frame scrape_treasury_data returns: the rows of the latest date, one
\* scrape_timestamp (datetime.now(timezone.utc)) for all of them
ScrapedFrame ==
    [columns |-> UpsertColumns,
     rows |-> [n \in 1..Len(input_table.rows) |->
                  [date             |-> 1,
                   maturity         |-> input_table.rows[n].maturity,
                   yield_pct        |-> input_table.rows[n].yield_pct,
                   scrape_timestamp |-> [wall |-> 2, aware |-> TRUE, utcoffset |-> 0]]]]

\* the steps of main in the order of its statements
MainOrder == <<"scrape", "write_daily_yields", "upsert", "compute", "write_break_even">>

\* AWSSettings(), TreasuryBillScraper(...), scrape_treasury_data(); any of
\* them may raise (validation, HTTP error)
MainScrape ==
    /\ main_pc = "start"
    /\ \/ main_pc' = "scraped" /\ main_steps' = Append(main_steps, "scrape")
       \/ main_pc' = "failed" /\ UNCHANGED main_steps
    /\ UNCHANGED <<daily_yields_csv, break_even_yields_csv>>
    /\ UNCHANGED analytics_vars
    /\ UNCHANGED upsert_vars

\* data.select(["maturity", "yield_pct"]).write_csv(daily_yields.csv); a
\* write that fails may have left the file as it was or half written
MainWriteDailyYields ==
    /\ main_pc = "scraped"
    /\ \/ /\ main_pc' = "upsert"
          /\ main_steps' = Append(main_steps, "write_daily_yields")
          /\ daily_yields_csv' = [run |-> "new", rows |-> input_table.rows]
       \/ /\ main_pc' = "failed"
          /\ daily_yields_csv' \in {daily_yields_csv, [run |-> "partial", rows |-> <<>>]}
          /\ UNCHANGED main_steps
    /\ UNCHANGED break_even_yields_csv
    /\ UNCHANGED analytics_vars
    /\ UNCHANGED upsert_vars

\* tbills_scraper.upsert_data(data) is entered
MainUpsertCall ==
    /\ main_pc = "upsert"
    /\ up_pc = "idle"
    /\ UpsertCallWith(ScrapedFrame)

MainSelectToInsertCount == main_pc = "upsert" /\ SelectToInsertCount

MainSelectToUpdateCount == main_pc = "upsert" /\ SelectToUpdateCount

MainExecuteMerge == main_pc = "upsert" /\ ExecuteMerge

\* a statement fails in Athena (wr.athena raises): upsert_data is left by
\* the exception, the table is not changed
MainUpsertQueryFails ==
    /\ main_pc = "upsert"
    /\ up_pc \in {"count_insert", "count_update", "merge"}
    /\ up_pc' = "raised"
    /\ up_error' = "QueryFailed"
    /\ queries' = Append(queries,
                     IF up_pc = "count_insert" THEN "to_insert_count_query"
                     ELSE IF up_pc = "count_update" THEN "to_update_count_query"
                     ELSE "upsert_query")
    /\ UNCHANGED <<target_table, data, stats, to_insert_count, merged, upserts,
                   commits, repeated>>
    /\ UNCHANGED analytics_vars
    /\ UNCHANGED main_vars

\* upsert_data has returned: main goes on; it has raised: main is left
MainAfterUpsertIgnoringFailure ==
    /\ main_pc = "upsert"
    /\ up_pc \in {"returned", "raised"}
    /\ main_pc' = "analytics"
    /\ main_steps' = IF up_pc = "returned" THEN Append(main_steps, "upsert")
                     ELSE main_steps
    /\ UNCHANGED <<daily_yields_csv, break_even_yields_csv>>
    /\ UNCHANGED analytics_vars
    /\ UNCHANGED upsert_vars

MainAfterUpsert ==
    /\ main_pc = "upsert"
    /\ up_pc \in {"returned", "raised"}
    /\ IF up_pc = "returned"
       THEN main_pc' = "analytics" /\ main_steps' = Append(main_steps, "upsert")
       ELSE main_pc' = "failed" /\ UNCHANGED main_steps
    /\ UNCHANGED <<daily_yields_csv, break_even_yields_csv>>
    /\ UNCHANGED analytics_vars
    /\ UNCHANGED upsert_vars

\* TreasuryBillAnalytics(input_table=data, ...) and
\* compute_break_even_rates(decimals=4)
MainConstruct == main_pc = "analytics" /\ Construct

MainBeginCompute == main_pc = "analytics" /\ BeginCompute

MainOuterStep == main_pc = "analytics" /\ OuterStep

MainInnerStep == main_pc = "analytics" /\ InnerStep

MainAssemble == main_pc = "analytics" /\ Assemble

\* the table has been returned: main goes on; the constructor or the call
\* has raised: main is left
MainAfterCompute ==
    /\ main_pc = "analytics"
    /\ obj = "failed" \/ pc \in {"done", "raised"}
    /\ IF pc = "done"
       THEN main_pc' = "write_break_even" /\ main_steps' = Append(main_steps, "compute")
       ELSE main_pc' = "failed" /\ UNCHANGED main_steps
    /\ UNCHANGED <<daily_yields_csv, break_even_yields_csv>>
    /\ UNCHANGED analytics_vars
    /\ UNCHANGED upsert_vars

\* break_even_table.write_csv(break_even_yields.csv); return 0
MainWriteBreakEven ==
    /\ main_pc = "write_break_even"
    /\ \/ /\ main_pc' = "finished"
          /\ main_steps' = Append(main_steps, "write_break_even")
          /\ break_even_yields_csv' = [run |-> "new", rows |-> y_be_table]
       \/ /\ main_pc' = "failed"
          /\ break_even_yields_csv' \in
                 {break_even_yields_csv, [run |-> "partial", rows |-> <<>>]}
          /\ UNCHANGED main_steps
    /\ UNCHANGED daily_yields_csv
    /\ UNCHANGED analytics_vars
    /\ UNCHANGED upsert_vars

\* the scraped frame has all its columns; main runs once
InitMain ==
    /\ Init
    /\ input_table.columns = RequiredColumns
    /\ Len(input_table.rows) <= MaxProbeRows

NextMain ==
    \/ MainScrape
    \/ MainWriteDailyYields
    \/ MainUpsertCall
    \/ MainSelectToInsertCount
    \/ MainSelectToUpdateCount
    \/ MainExecuteMerge
    \/ MainUpsertQueryFails
    \/ MainAfterUpsert
    \/ MainConstruct
    \/ MainBeginCompute
    \/ MainOuterStep
    \/ MainInnerStep
    \/ MainAssemble
    \/ MainAfterCompute
    \/ MainWriteBreakEven

SpecMain == InitMain /\ [][NextMain]_vars

\* ------------------------------------------------------------------ claims
Rows(table) == {table[n] : n \in 1..Len(table)}
Attempts == {attempts[n] : n \in 1..Len(attempts)}
Tenors == {available_tenors_weeks[n] : n \in 1..Len(available_tenors_weeks)}
Fits(weeks) == weeks * days_per_week <= day_count_base
Failed(res) == res.outcome = "raise" \/ ~res.y.finite

\* C1: for positive horizon_days and tenor_days the decomposition satisfies
\* full_rolls * tenor_days + stub_days = horizon_days, full_rolls >= 0 and
\* 0 <= stub_days < tenor_days, and full_rolls = 0 exactly when
\* tenor_days > horizon_days.
C1_DecompositionIdentity ==
    probe.op = "decompose" =>
        /\ probe.full_rolls * probe.tenor_days + probe.stub_days = probe.horizon_days
        /\ probe.full_rolls >= 0
        /\ 0 <= probe.stub_days
        /\ probe.stub_days < probe.tenor_days
        /\ (probe.full_rolls = 0 <=> probe.tenor_days > probe.horizon_days)

C1_Witness ==
    /\ probe.op = "decompose"
    /\ probe.tenor_days > probe.horizon_days
    /\ probe.full_rolls = 0
    /\ probe.stub_days = probe.horizon_days

\* C2: when the short tenor's decomposition has full_rolls <= 0 the solver
\* returns NaN having done nothing but the decomposition (no closed-form
\* solve, no initial guess, no nsolve attempt), and the batch holds no row
\* whose short tenor has full_rolls <= 0.
C2_ZeroRollNeverSolved ==
    /\ (probe.op = "solve" /\ probe.full_rolls <= 0) =>
           /\ probe.result.outcome = "return"
           /\ ~probe.result.y.finite
           /\ probe.result.log = <<"decompose">>
    /\ \A a \in Attempts :
           decompose_horizon_into_full_rolls_and_stub(
               a.horizon_days, a.short_tenor_days).full_rolls <= 0
           => a.result = Returned(NaN, <<"decompose">>)
    /\ \A row \in Rows(results) \cup Rows(y_be_table) :
           decompose_horizon_into_full_rolls_and_stub(
               day_count_base, row.shorter * days_per_week).full_rolls >= 1

C2_Witness ==
    /\ probe.op = "solve"
    /\ probe.full_rolls <= 0
    /\ probe.tenor_days > probe.horizon_days

\* C3: no row has a shorter or longer tenor longer (in days) than the
\* horizon; a long tenor that exceeds the horizon is never handed to the
\* solver with any short tenor; a long tenor equal to the horizon is paired
\* with every shorter tenor.
C3_TenorsFitHorizon ==
    /\ \A row \in Rows(results) \cup Rows(y_be_table) :
           Fits(row.shorter) /\ Fits(row.longer)
    /\ \A a \in Attempts : Fits(a.longer)
    /\ pc \in {"assemble", "done"} =>
           \A l \in Tenors : l * days_per_week = day_count_base =>
               \A s \in Tenors : s < l =>
                   \E a \in Attempts : a.shorter = s /\ a.longer = l

C3_Witness ==
    /\ pc = "done"
    /\ \E t \in Tenors : ~Fits(t)
    /\ \E row \in Rows(y_be_table) : row.longer * days_per_week = day_count_base

\* C4: every row has shorter < longer and no (shorter, longer) pair is in two
\* rows, also when the input table lists a maturity more than once.
C4_PairsStrictAndUnique ==
    /\ \A row \in Rows(results) \cup Rows(y_be_table) : row.shorter < row.longer
    /\ \A table \in {results, y_be_table} :
           \A a, b \in 1..Len(table) :
               (table[a].shorter = table[b].shorter /\ table[a].longer = table[b].longer)
               => a = b

C4_Witness ==
    /\ pc = "done"
    /\ Len(y_be_table) >= 1
    /\ \E a, b \in 1..Len(input_table.rows) :
           a # b /\ input_table.rows[a].maturity = input_table.rows[b].maturity

\* C5: the returned rows are in ascending order of longer tenor, and of
\* shorter tenor among rows of one longer tenor, whatever the order of the
\* maturities in the input table.
C5_RowsOrdered ==
    pc = "done" =>
        \A n \in 1..(Len(y_be_table) - 1) :
            \/ y_be_table[n].longer < y_be_table[n + 1].longer
            \/ /\ y_be_table[n].longer = y_be_table[n + 1].longer
               /\ y_be_table[n].shorter <= y_be_table[n + 1].shorter

C5_Witness ==
    /\ pc = "done"
    /\ Len(y_be_table) >= 2
    /\ Len(input_table.rows) >= 2
    /\ input_table.rows[1].maturity > input_table.rows[2].maturity

\* C6: the returned table has a row for (shorter, longer) exactly when
\* shorter < longer, both tenors fit the horizon and the solver returned a
\* finite yield for the pair; it has at most n(n-1)/2 rows and no row holds
\* a non-finite yield.
C6_RowIffFiniteSolution ==
    pc = "done" =>
        /\ \A s, l \in TenorWeeks :
               (\E row \in Rows(y_be_table) : row.shorter = s /\ row.longer = l)
               <=> /\ s \in Tenors
                   /\ l \in Tenors
                   /\ s < l
                   /\ Fits(s)
                   /\ Fits(l)
                   /\ \E a \in Attempts :
                          a.shorter = s /\ a.longer = l /\ ~Failed(a.result)
        /\ 2 * Len(y_be_table) <= Cardinality(Tenors) * (Cardinality(Tenors) - 1)
        /\ \A row \in Rows(y_be_table) : row.y_be.finite

C6_Witness ==
    /\ pc = "done"
    /\ Len(y_be_table) >= 1
    /\ \E a \in Attempts : Failed(a.result)

\* C7: with a single tenor (and whenever no pair yields a row)
\* compute_break_even_rates completes normally and returns an empty table.
C7_SingleTenorEmptyTable ==
    (obj = "constructed" /\ Cardinality(DOMAIN cey_by_weeks) = 1) =>
        /\ pc # "raised"
        /\ pc = "done" => y_be_table = <<>>

\* C8: a table lacking the maturity or the yield_pct column makes
\* construction raise ValueError; no tenor mapping is built and no pair
\* computation starts.
C8_MissingColumnRaisesAtConstruction ==
    ("maturity" \notin input_table.columns \/ "yield_pct" \notin input_table.columns) =>
        /\ obj \in {"new", "failed"}
        /\ obj = "failed" <=> error = "ValueError"
        /\ cey_by_weeks = <<>>
        /\ available_tenors_weeks = <<>>
        /\ pc = "idle"
        /\ attempts = <<>>
        /\ results = <<>>

C8_Witness ==
    /\ obj = "failed"
    /\ error = "ValueError"
    /\ "maturity" \in input_table.columns
    /\ Len(input_table.rows) >= 1

\* C9: a table with the required columns and zero rows is reported as an
\* input error at once; the computation does not reach the pair iteration
\* and table assembly.
C9_EmptyTenorSetRejected ==
    ({"maturity", "yield_pct"} \subseteq input_table.columns /\ input_table.rows = <<>>) =>
        pc \notin {"assemble", "done"}

\* C10: a pair whose solve fails (exception or no feasible root, on either
\* path) is only skipped; compute_break_even_rates does not raise and the
\* remaining pairs are processed.
C10_PairFailureNeverRaises ==
    (\E a \in Attempts : Failed(a.result)) => pc # "raised"

\* C11: on the stub path the solver tries the seeds guess, guess - 0.02,
\* guess + 0.02 in that order, at most three times; it returns the root of
\* the first seed that converges to a feasible root and tries nothing after
\* it; a seed that raises or gives an infeasible root is followed by the
\* next seed; NaN when all three fail.
C11_SeedsInOrderFirstFeasibleWins ==
    (/\ probe.op = "solve"
     /\ probe.oracle # <<>>
     /\ probe.full_rolls >= 1
     /\ probe.stub_days > 0
     /\ probe.result.outcome = "return") =>
        LET o == probe.oracle
            log == probe.result.log
            y == probe.result.y
            tried == Len(log) - 2
            good(s) == ~o[s].raised /\ o[s].gm > 0 /\ o[s].gr > 0
        IN  /\ tried \in 1..3
            /\ SubSeq(log, 3, Len(log)) =
                   SubSeq(<<"nsolve(guess)", "nsolve(guess - 0.02)", "nsolve(guess + 0.02)">>,
                          1, tried)
            /\ IF \E s \in 1..3 : good(s)
               THEN LET first_good == CHOOSE s \in 1..3 :
                                          good(s) /\ \A t \in 1..(s - 1) : ~good(t)
                    IN  /\ y.finite
                        /\ y.via = "nsolve"
                        /\ y.seed = first_good
                        /\ tried = first_good
                        /\ y.gm = o[first_good].gm
                        /\ y.gr = o[first_good].gr
               ELSE ~y.finite /\ tried = 3

C11_Witness ==
    /\ probe.op = "solve"
    /\ probe.oracle # <<>>
    /\ probe.stub_days > 0
    /\ probe.result.y.finite
    /\ probe.result.y.seed = 3
    /\ probe.oracle[1].raised
    /\ ~probe.oracle[2].raised

\* every solver call seen: [k, r, target, res] for the calls of the batch and
\* for the direct call
SolverCalls ==
    {[k |-> a.horizon_days \div a.short_tenor_days,
      r |-> a.horizon_days % a.short_tenor_days,
      target |-> a.target,
      res |-> a.result] : a \in Attempts}
    \cup (IF probe.op = "solve"
          THEN {[k |-> probe.full_rolls, r |-> probe.stub_days,
                 target |-> probe.target, res |-> probe.result]}
          ELSE {})

\* C12: a finite yield returned by the stub path has 1 + y*m_short/dc > 0
\* and 1 + y*r_short/dc > 0; no row holds a numerically found yield that
\* fails either inequality.
C12_StubRootsFeasible ==
    /\ \A c \in SolverCalls :
           (c.res.y.finite /\ c.res.y.via = "nsolve") =>
               c.res.y.gm > 0 /\ c.res.y.gr > 0
    /\ \A row \in Rows(results) \cup Rows(y_be_table) :
           row.y_be.via = "nsolve" => row.y_be.gm > 0 /\ row.y_be.gr > 0

C12_Witness ==
    /\ pc = "done"
    /\ \E row \in Rows(y_be_table) : row.y_be.via = "nsolve" /\ row.y_be.seed >= 2

\* C13: with full_rolls >= 1 the stub alone selects the branch: stub_days = 0
\* takes the closed form and never calls nsolve; stub_days > 0 takes the
\* numerical path (initial guess, then nsolve) and never the closed-form
\* solve.
C13_BranchByStub ==
    \A c \in SolverCalls :
        /\ (c.k >= 1 /\ c.r = 0) =>
               /\ c.res.log = <<"decompose", "solve">>
               /\ c.res.y.finite => c.res.y.via = "closed"
        /\ (c.k >= 1 /\ c.r > 0) =>
               /\ Len(c.res.log) >= 2
               /\ c.res.log[2] = "guess"
               /\ \A n \in 1..Len(c.res.log) : c.res.log[n] # "solve"
               /\ c.res.y.finite => c.res.y.via = "nsolve"

C13_Witness ==
    /\ probe.op = "solve"
    /\ probe.full_rolls = 1
    /\ probe.stub_days > 0
    /\ probe.result.y.finite
    /\ probe.result.y.via = "nsolve"

\* C14: in the no-stub case with a positive target the returned yield is the
\* root with positive period growth 1 + y*m_short/dc > 0, for odd and for
\* even full_rolls.
C14_ClosedFormPositiveGrowthRoot ==
    \A a \in Attempts :
        (/\ a.horizon_days \div a.short_tenor_days >= 1
         /\ a.horizon_days % a.short_tenor_days = 0
         /\ TargetSign(a.target) > 0) =>
            /\ a.result.outcome = "return"
            /\ a.result.y.finite
            /\ a.result.y.via = "closed"
            /\ a.result.y.gm > 0

\* the yield_pct the input table gives for a tenor (its last row wins)
QuotedPct(weeks) ==
    LET rows == input_table.rows
        n == CHOOSE n \in 1..Len(rows) :
                 /\ rows[n].maturity = weeks
                 /\ \A n2 \in 1..Len(rows) : rows[n2].maturity = weeks => n2 <= n
    IN  rows[n].yield_pct

\* C15: the target of every solver call of the batch is
\* (1 + y_long*m_long/dc)^k_long * (1 + y_long*r_long/dc), with y_long =
\* yield_pct / 100 of the long tenor and (k_long, r_long) the decomposition of
\* the horizon by its days; all short tenors paired with one long tenor get
\* the same target.
C15_TargetIsLongLegAccumulation ==
    /\ \A a \in Attempts :
           LET m_long == a.longer * days_per_week
               pct == QuotedPct(a.longer)
           IN  /\ a.target.unit = 100 * day_count_base
               /\ a.target.base = 100 * day_count_base + pct * m_long
               /\ a.target.k = day_count_base \div m_long
               /\ a.target.stub = 100 * day_count_base + pct * (day_count_base % m_long)
    /\ \A a, b \in Attempts : a.longer = b.longer => a.target = b.target

C15_Witness ==
    /\ pc = "done"
    /\ \E a, b \in Attempts :
           /\ a.longer = b.longer
           /\ a.shorter # b.shorter
           /\ day_count_base % (a.longer * days_per_week) > 0

\* C16: a call of compute_break_even_rates with the inputs of the call before
\* it (on the same object or on one constructed anew from the same table)
\* ends as that call ended: the same table, row for row, or the same error.
C16_RepeatedCallSameOutcome ==
    (call > 1 /\ pc \in {"done", "raised"}) =>
        /\ pc = previous.pc
        /\ y_be_table = previous.table
        /\ error = previous.error

C16_Witness ==
    /\ call > 1
    /\ pc = "done"
    /\ Len(y_be_table) >= 1
    /\ previous.pc = "done"

\* C17: once the object is constructed no step changes data, cey_by_weeks,
\* available_tenors_weeks, day_count_base, days_per_week or the class symbols,
\* and a running call leaves the table the call before it returned as it was.
C17_CallLeavesObjectUnchanged ==
    [][obj = "constructed" =>
          /\ UNCHANGED <<input_table, cey_by_weeks, available_tenors_weeks,
                         day_count_base, days_per_week, symbols>>
          /\ (call' = call => previous' = previous)]_vars

C17_Witness ==
    /\ call > 1
    /\ pc = "inner"
    /\ Len(results) >= 1
    /\ previous.table # <<>>

\* C18: the row of a pair depends on that pair alone: once the call is over,
\* every pair whose own solve gave a finite yield has its row in the table,
\* whatever became of the other pairs.
C18_SolvedPairKeepsItsRow ==
    pc \in {"done", "raised"} =>
        \A a \in Attempts :
            ~Failed(a.result) =>
                \E row \in Rows(y_be_table) :
                    /\ row.shorter = a.shorter
                    /\ row.longer = a.longer
                    /\ row.y_be = a.result.y

\* how many entries of a solver log are closed-form solves, numerical attempts
ClosedFormSolves(log) == Cardinality({n \in 1..Len(log) : log[n] = "solve"})
NumericalAttempts(log) ==
    Cardinality({n \in 1..Len(log) :
                     log[n] \in {"nsolve(guess)", "nsolve(guess - 0.02)",
                                 "nsolve(guess + 0.02)"}})

\* position of the call in its two loops; it grows with every step and is
\* bounded by (n + 2) * (n + 3) + 1 for n tenors
LoopRank ==
    LET n == Len(available_tenors_weeks)
    IN  IF pc = "idle" THEN 0
        ELSE IF pc = "outer" THEN i * (n + 3)
        ELSE IF pc = "inner" THEN i * (n + 3) + j
        ELSE IF pc = "assemble" THEN (n + 2) * (n + 3)
        ELSE (n + 2) * (n + 3) + 1

\* no pair is given to the solver twice, a solver call makes one closed-form
\* solve or at most three numerical attempts, the loop indices stay in range
LoopsBounded ==
    /\ \A n, m \in 1..Len(attempts) :
           (attempts[n].shorter = attempts[m].shorter
            /\ attempts[n].longer = attempts[m].longer) => n = m
    /\ \A a \in Attempts :
           /\ ClosedFormSolves(a.result.log) <= 1
           /\ NumericalAttempts(a.result.log) <= 3
           /\ ClosedFormSolves(a.result.log) = 0 \/ NumericalAttempts(a.result.log) = 0
    /\ i <= Len(available_tenors_weeks) + 1
    /\ j <= Len(available_tenors_weeks) + 1

\* C19: compute_break_even_rates terminates: the two loops range over the
\* finite tenor list and only move forward (every step of a call raises its
\* bounded loop rank), so every (longer, shorter) combination is visited at
\* most once; at most one solver call is made per pair, and a
\* solver call makes at most one closed-form solve or at most three
\* numerical attempts, never both.
C19_CallTerminates ==
    [][/\ LoopsBounded'
       /\ (pc' # "idle" => LoopRank' > LoopRank)]_vars

C19_Witness ==
    /\ pc = "done"
    /\ Len(attempts) = 3
    /\ \E a \in Attempts : NumericalAttempts(a.result.log) = 3
    /\ \E a \in Attempts : ClosedFormSolves(a.result.log) = 1

\* how often a row occurs in a table
CountIn(table, row) == Cardinality({n \in 1..Len(table) : table[n] = row})

\* C20: a completed MERGE of upsert_data works by the key (date, maturity):
\* a source row whose key the table did not hold is inserted; a table row
\* whose key a source row with a strictly greater scrape_timestamp carries
\* takes that row's yield_pct and scrape_timestamp; a table row for which no
\* source row is strictly newer stays as it was; no other row appears and
\* none disappears.
C20_MergeByKeyNewerWins ==
    merged.done =>
        LET source == ValuesClause(data.rows)
            before == merged.before
            after == target_table
            absent(src) == \A t \in Rows(before) :
                               t.date # src.date \/ t.maturity # src.maturity
            newer(t) == {src \in Rows(source) :
                             /\ src.date = t.date
                             /\ src.maturity = t.maturity
                             /\ src.scrape_timestamp > t.scrape_timestamp}
            expected(t) ==
                IF newer(t) = {} THEN {t}
                ELSE {[t EXCEPT !.yield_pct = src.yield_pct,
                                !.scrape_timestamp = src.scrape_timestamp] :
                      src \in newer(t)}
        IN  /\ \A src \in Rows(source) :
                   absent(src) => CountIn(after, src) = CountIn(source, src)
            /\ \A t \in Rows(before) :
                   newer(t) = {} => CountIn(after, t) >= CountIn(before, t)
            /\ \A t \in Rows(before) :
                   newer(t) # {} => \E row \in expected(t) : row \in Rows(after)
            /\ \A row \in Rows(after) :
                   \/ row \in Rows(source) /\ absent(row)
                   \/ \E t \in Rows(before) : row \in expected(t)
            /\ Len(after) = Len(before)
                   + Cardinality({n \in 1..Len(source) : absent(source[n])})

C20_Witness ==
    /\ merged.done
    /\ merged.inserted >= 1
    /\ merged.updated >= 1
    /\ \E t \in Rows(merged.before), src \in Rows(ValuesClause(data.rows)) :
           /\ src.date = t.date
           /\ src.maturity = t.maturity
           /\ src.scrape_timestamp <= t.scrape_timestamp
           /\ src.yield_pct # t.yield_pct
           /\ t \in Rows(target_table)

\* C21: a call of upsert_data with a frame that lacks one of date, maturity,
\* yield_pct, scrape_timestamp raises ValueError, whatever the number of its
\* rows, and sends no statement.
C21_MissingColumnRaisesValueError ==
    (up_pc # "idle" /\ \E c \in {"date", "maturity", "yield_pct", "scrape_timestamp"} :
                            c \notin data.columns) =>
        /\ up_pc = "raised"
        /\ up_error = "ValueError"
        /\ queries = <<>>

C23_StatsAreWhatMergeDid ==
    (up_pc = "returned" /\ merged.done) =>
        /\ stats.rows_processed = Len(data.rows)
        /\ stats.rows_inserted = merged.inserted
        /\ stats.rows_updated = merged.updated

\* no two rows of the frame have the same (date, maturity)
KeyUnique(rows) ==
    \A n, m \in 1..Len(rows) :
        (rows[n].date = rows[m].date /\ rows[n].maturity = rows[m].maturity) => n = m

\* C24: with no other writer, a call of upsert_data given the frame of the
\* completed call before it, its rows key-unique, completes too, leaves the
\* table as it found it and returns rows_inserted = 0 and rows_updated = 0.
C24_SecondUpsertChangesNothing ==
    (/\ repeated
     /\ data.columns = {"date", "maturity", "yield_pct", "scrape_timestamp"}
     /\ KeyUnique(data.rows)
     /\ up_pc \in {"returned", "raised"}) =>
        /\ up_pc = "returned"
        /\ merged.done
        /\ target_table = merged.before
        /\ stats.rows_inserted = 0
        /\ stats.rows_updated = 0

C24_Witness ==
    /\ repeated
    /\ up_pc = "returned"
    /\ merged.done
    /\ Len(data.rows) >= 2
    /\ KeyUnique(data.rows)
    /\ target_table = merged.before

\* the rows of a table that carry the key of a row
WithKeyOf(table, row) ==
    {n \in 1..Len(table) : table[n].date = row.date /\ table[n].maturity = row.maturity}

\* C25: over any sequence of upsert_data calls no step deletes a row of the
\* table or changes a row's key (every key keeps at least as many rows), the
\* scrape_timestamp stored for a key never decreases, and a row that is
\* replaced is replaced by a row of its key with a strictly greater
\* scrape_timestamp.
C25_TableOnlyMovesForward ==
    [][\A t \in Rows(target_table) :
          /\ Cardinality(WithKeyOf(target_table', t)) >= Cardinality(WithKeyOf(target_table, t))
          /\ \A n \in WithKeyOf(target_table', t) :
                 \E m \in WithKeyOf(target_table, t) :
                     target_table'[n].scrape_timestamp >= target_table[m].scrape_timestamp
          /\ \A m \in WithKeyOf(target_table, t) :
                 \E n \in WithKeyOf(target_table', t) :
                     target_table'[n].scrape_timestamp >= target_table[m].scrape_timestamp
          /\ CountIn(target_table', t) < CountIn(target_table, t) =>
                 \E n \in WithKeyOf(target_table', t) :
                     /\ target_table'[n].scrape_timestamp > t.scrape_timestamp
                     /\ CountIn(target_table', target_table'[n])
                            > CountIn(target_table, target_table'[n])]_vars

C25_Witness ==
    /\ merged.done
    /\ merged.updated >= 1
    /\ \E t \in Rows(merged.before), src \in Rows(ValuesClause(data.rows)) :
           /\ src.date = t.date
           /\ src.maturity = t.maturity
           /\ src.scrape_timestamp < t.scrape_timestamp
           /\ src.yield_pct # t.yield_pct

\* C26: every solver call of a batch gets the object's day_count_base as its
\* horizon, the same for all pairs; the long leg is decomposed over
\* day_count_base too, and both tenors of a pair have passed the fit test
\* against day_count_base.
C26_HorizonIsDayCountBase ==
    /\ \A a \in Attempts :
           /\ a.horizon_days = day_count_base
           /\ a.target.k = day_count_base \div (a.longer * days_per_week)
           /\ a.short_tenor_days = a.shorter * days_per_week
           /\ a.short_tenor_days <= day_count_base
           /\ a.longer * days_per_week <= day_count_base
    /\ \A a, b \in Attempts : a.horizon_days = b.horizon_days

C26_Witness ==
    /\ pc = "done"
    /\ day_count_base < MaxBase
    /\ \E a, b \in Attempts : a.longer # b.longer
    /\ \E a \in Attempts : day_count_base % a.short_tenor_days # 0

\* the completed steps are a prefix of the order of main, and nothing of a
\* later step has happened before the steps ahead of it are completed
MainInOrder ==
    /\ main_steps = SubSeq(MainOrder, 1, Len(main_steps))
    /\ daily_yields_csv # PreviousRun => Len(main_steps) >= 1
    /\ up_pc # "idle" => Len(main_steps) >= 2 /\ daily_yields_csv.run = "new"
    /\ (obj # "new" \/ pc # "idle") => Len(main_steps) >= 3 /\ up_pc = "returned"
    /\ break_even_yields_csv # PreviousRun =>
           Len(main_steps) >= 4 /\ up_pc = "returned" /\ pc = "done"
    /\ (main_pc = "failed" /\ up_pc = "raised") =>
           /\ daily_yields_csv = [run |-> "new", rows |-> input_table.rows]
           /\ break_even_yields_csv = PreviousRun
           /\ obj = "new"

\* C27: main runs scrape, write daily_yields.csv, upsert, compute, write
\* break_even_yields.csv in this order; after an exception in a step nothing
\* more happens; break_even_yields.csv is written only after the upsert has
\* returned, so a failing upsert leaves daily_yields.csv with the new
\* snapshot and break_even_yields.csv with the table of the previous run.
C27_MainStepsInOrder ==
    [][/\ main_pc # "failed"
       /\ main_pc # "finished"
       /\ MainInOrder']_vars

C27_Witness ==
    /\ main_pc = "failed"
    /\ up_pc = "raised"
    /\ Len(data.rows) >= 1
    /\ daily_yields_csv.run = "new"
    /\ break_even_yields_csv = PreviousRun
====
